---- MODULE Spec2Model ----
(***************************************************************************)
(* A model of Tex2HTMLConverter (src/src/converter.py): the text           *)
(* normaliser (preprocess / postprocess), the block segmenter, the block   *)
(* dispatcher (__convert), the tree walker (__convert_block,               *)
(* __process_text_tree), the sectioning handlers and the footnote flush.   *)
(*                                                                         *)
(* Strings.  A Python string is a sequence of units.  A unit is one        *)
(* character, or a run of characters that no rule of the two rule tables   *)
(* can match into or across: an entity ("&lt;", "&gt;", "&nbsp;"), the     *)
(* inside of a tag ("/span", "sup", "div class=\"section\""), a number in  *)
(* decimal, a word of document text.  "<" and ">" are always units of      *)
(* their own, and so is every space that a join or a format string puts    *)
(* next to document content, so a rule matches a string of units exactly   *)
(* where it matches the characters.  RAQUO, LSQUO, RSQUO, HELLIP, MDASH    *)
(* and NDASH stand for the characters U+00BB, U+2018, U+2019, U+2026,      *)
(* U+2014 and U+2013.                                                      *)
(***************************************************************************)
EXTENDS Integers, Sequences, FiniteSets, TLC

(***************************************************************************)
(* str.replace(old, new): every non-overlapping occurrence, left to right. *)
(***************************************************************************)
\* old occurs in s at index i.
Occurs(s, old, i) ==
    /\ s[i] = old[1]
    /\ i + Len(old) - 1 <= Len(s)
    /\ \A k \in 2..Len(old) : s[i + k - 1] = old[k]

\* The index of the first occurrence of old in s at or after i; 0 for none.
Find(s, old, i) ==
    IF \E j \in i..Len(s) : Occurs(s, old, j)
    THEN CHOOSE j \in i..Len(s) : Occurs(s, old, j) /\ \A k \in i..(j - 1) : ~Occurs(s, old, k)
    ELSE 0

RECURSIVE ReplaceFrom(_, _, _, _)
ReplaceFrom(s, old, new, i) ==
    LET j == Find(s, old, i)
    IN  IF j = 0 THEN SubSeq(s, i, Len(s))
        ELSE SubSeq(s, i, j - 1) \o new \o ReplaceFrom(s, old, new, j + Len(old))

\* A replace that stops after the first occurrence: str.replace(old, new, 1).
ReplaceFirstOnly(s, old, new) ==
    IF Len(s) < Len(old) THEN s
    ELSE LET j == Find(s, old, 1)
         IN  IF j = 0 THEN s
             ELSE SubSeq(s, 1, j - 1) \o new \o SubSeq(s, j + Len(old), Len(s))

Replace(s, old, new) ==
    IF Len(s) < Len(old) THEN s ELSE ReplaceFrom(s, old, new, 1)

\* for k, v in table.items(): txt = txt.replace(k, v)   (rules i..Len(table))
RECURSIVE ApplyRules(_, _, _)
ApplyRules(s, table, i) ==
    IF i > Len(table) THEN s
    ELSE ApplyRules(Replace(s, table[i][1], table[i][2]), table, i + 1)

preprocessing_dict ==
    <<
       <<<<"\\textless", "{", "}", " ">>, <<"&lt;", "_">>>>,
       <<<<"\\textless", "{", "}">>, <<"&lt;">>>>,
       <<<<"\\textless", " ">>, <<"&lt;", "_">>>>,
       <<<<"\\textless">>, <<"&lt;">>>>,
       <<<<" ", "\\textgreater", "{", "}">>, <<"_", "&gt;">>>>,
       <<<<"\\textgreater", "{", "}">>, <<"&gt;">>>>,
       <<<<" ", "\\textgreater">>, <<"_", "&gt;">>>>,
       <<<<"\\textgreater">>, <<"&gt;">>>>,
       <<<<"\\ldots", "{", "}">>, <<"HELLIP">>>>,
       <<<<"\\ldots">>, <<"HELLIP">>>>,
       <<<<"\\_">>, <<"_">>>>,
       <<<<"\\#">>, <<"#">>>>,
       <<<<"-", "-", "-">>, <<"MDASH">>>>,
       <<<<" ", "-", "-", " ">>, <<" ", "MDASH", " ">>>>,
       <<<<"-", "-">>, <<"NDASH">>>>,
       <<<<"~">>, <<"&nbsp;">>>>,
       <<<<" ", "MDASH">>, <<"&nbsp;", "MDASH">>>>
    >>

postprocessing_dict ==
    <<
       <<<<">", " ", ".">>, <<">", ".">>>>,
       <<<<"&gt;", " ", ".">>, <<"&gt;", ".">>>>,
       <<<<">", " ", "RAQUO">>, <<">", "RAQUO">>>>,
       <<<<"&gt;", " ", "RAQUO">>, <<"&gt;", "RAQUO">>>>,
       <<<<">", " ", ",">>, <<">", ",">>>>,
       <<<<"&gt;", " ", ",">>, <<"&gt;", ",">>>>,
       <<<<">", " ", ";">>, <<">", ";">>>>,
       <<<<"&gt;", " ", ";">>, <<"&gt;", ";">>>>,
       <<<<">", " ", "?">>, <<">", "?">>>>,
       <<<<"&gt;", " ", "?">>, <<"&gt;", "?">>>>,
       <<<<">", " ", "!">>, <<">", "!">>>>,
       <<<<"&gt;", " ", "!">>, <<"&gt;", "!">>>>,
       <<<<">", " ", ")">>, <<">", ")">>>>,
       <<<<"&gt;", " ", ")">>, <<"&gt;", ")">>>>,
       <<<<"(", " ", "<">>, <<"(", "<">>>>,
       <<<<"(", " ", "&lt;">>, <<"(", "&lt;">>>>,
       <<<<"*", " ", "<">>, <<"*", "<">>>>,
       <<<<"*", " ", "&lt;">>, <<"*", "&lt;">>>>,
       <<<<"`">>, <<"LSQUO">>>>,
       <<<<"'">>, <<"RSQUO">>>>,
       <<<<"&nbsp;", " ">>, <<"&nbsp;">>>>,
       <<<<"[", "<", "/span", ">", " ">>, <<"[", "<", "/span", ">">>>>,
       <<<<" ", "<", "span class=\"", "BraceGroup", "\"", ">", "]">>, <<"<", "span class=\"", "BraceGroup", "\"", ">", "]">>>>,
       <<<<" ", "<", "span id=\"foot">>, <<"<", "span id=\"foot">>>>,
       <<<<"[", " ">>, <<"[">>>>,
       <<<<" ", "]">>, <<"]">>>>,
       <<<<"(", " ">>, <<"(">>>>,
       <<<<" ", ")">>, <<")">>>>,
       <<<<"&lt;", " ">>, <<"&lt;">>>>,
       <<<<" ", "&gt;">>, <<"&gt;">>>>,
       <<<<"<", "sup", ">", "?", "<", "/sup", ">", " ">>, <<"<", "sup", ">", "?", "<", "/sup", ">">>>>,
       <<<<"&lt;", "_">>, <<"&lt;", " ">>>>,
       <<<<"_", "&gt;">>, <<" ", "&gt;">>>>
    >>

preprocess(s) ==
    ApplyRules(s, preprocessing_dict, 1)

postprocess(s) ==
    ApplyRules(s, postprocessing_dict, 1)

(***************************************************************************)
(* Python values that are not strings.  last_generated_label holds None,   *)
(* a str or (line 276) an int; the three are kept apart by their type.     *)
(***************************************************************************)
None == [type |-> "NoneType", val |-> <<>>]

PyStr(s) == [type |-> "str", val |-> s]

\* An int, with its value in decimal.
PyInt(n) == [type |-> "int", val |-> <<ToString(n)>>]

(***************************************************************************)
(* The parser's tree (TexSoup): a text leaf, or a TexNode with a name and  *)
(* ordered contents.                                                       *)
(***************************************************************************)
TextLeaf(t) == [name |-> "#text", contents |-> <<>>, text |-> t]

TexNode(n, c) == [name |-> n, contents |-> c, text |-> <<>>]

\* type(node) != TexSoup.data.TexNode
IsText(node) == node.name = "#text"

\* node.children: the contents that are TexNodes.
RECURSIVE Children(_)
Children(c) ==
    IF c = <<>> THEN <<>>
    ELSE IF IsText(c[1]) THEN Children(Tail(c))
         ELSE <<c[1]>> \o Children(Tail(c))

\* node.text: the strings of the text leaves below a node, in order.
RECURSIVE TextOf(_)
TextOf(c) ==
    IF c = <<>> THEN <<>>
    ELSE (IF IsText(c[1]) THEN <<c[1].text>> ELSE TextOf(c[1].contents)) \o TextOf(Tail(c))

IGNORED_NODES == {"toprule", "midrule", "bottomrule", "endhead"}

TEXT_NODES == {"underline", "textsubscript", "textsuperscript", "textit", "textbf",
               "textsc", "texttt", "it", "bf", "sc", "tt"}

SECTION_NODES == {"section", "section*", "subsection", "subsection*",
                  "subsubsection", "subsubsection*", "paragraph", "paragraph*"}

(***************************************************************************)
(* String helpers: str.strip(), ' '.join(list), str.startswith(prefix).    *)
(***************************************************************************)
RECURSIVE LStrip(_)
LStrip(s) ==
    IF s # <<>> /\ s[1] = " " THEN LStrip(Tail(s)) ELSE s

RECURSIVE RStrip(_)
RStrip(s) ==
    IF s # <<>> /\ s[Len(s)] = " " THEN RStrip(SubSeq(s, 1, Len(s) - 1)) ELSE s

Strip(s) == RStrip(LStrip(s))

RECURSIVE Join(_)
Join(list) ==
    IF list = <<>> THEN <<>>
    ELSE IF Len(list) = 1 THEN list[1]
         ELSE list[1] \o <<" ">> \o Join(Tail(list))

StartsWith(s, prefix) ==
    Len(s) >= Len(prefix) /\ SubSeq(s, 1, Len(prefix)) = prefix

(***************************************************************************)
(* The fragments the handlers format.                                      *)
(***************************************************************************)
\* line 208
FootnoteAnchor(k) ==
    <<"<", "span id=\"foot", "noteanchor", ToString(k), "\"", ">",
      "<", "sup", ">", "<", "a href=\"#footnote", ToString(k), "\"", ">", ToString(k),
      "<", "/a", ">", "<", "/sup", ">", "<", "/span", ">">>

\* line 210
FootnoteBody(k, tmp) ==
    <<"<", "div id=\"footnote", ToString(k), "\" class=\"footnote\"", ">",
      "<", "sup", ">", "<", "a href=\"#footnoteanchor", ToString(k), "\"", ">", ToString(k),
      "<", "/a", ">", "<", "/sup", ">", " ">> \o Join(tmp) \o <<"<", "/div", ">">>

\* lines 211-218, 232-234
InlineMarkup(name, tmp) ==
    IF name = "textsuperscript" THEN <<"<", "sup", ">">> \o Join(tmp) \o <<"<", "/sup", ">">>
    ELSE IF name = "textsubscript" THEN <<"<", "sub", ">">> \o Join(tmp) \o <<"<", "/sub", ">">>
    ELSE IF name = "textbackslash" THEN <<"\\">>
    ELSE <<"<", "span class=\"", name, "\"", ">">> \o Join(tmp) \o <<"<", "/span", ">">>

\* lines 253, 270, 287
Div(cls, attr, prefix, tmp) ==
    <<"<", "div class=\"", cls, "\"">> \o attr \o <<">">> \o prefix \o Join(tmp)
        \o <<"<", "/div", ">">>

\* f' id="{id}"'
IdAttribute(id) == <<" id=\"">> \o id \o <<"\"">>

\* The off-by-one rendering '({example_number + 1}): {txt}'.
convert_example_off_by_one(txt, example_number) ==
    <<"(", ToString(example_number + 1), ")", ":", " ">> \o txt

convert_example(txt, example_number) ==
    <<"(", ToString(example_number), ")", ":", " ">> \o txt

TocPlaceholder == <<"<", "p", ">", "TOC", "<", "/p", ">">>

(***************************************************************************)
(* The numbering registry: the four sectioning counters and the last       *)
(* generated id, as the handlers read and write them.                      *)
(***************************************************************************)
start_new_subsubsection(c) ==
    [c EXCEPT !.paragraph_counter = 1]

start_new_subsection(c) ==
    start_new_subsubsection([c EXCEPT !.subsubsection_counter = 1])

\* A reset that stops at the subsection counter.
start_new_section_no_cascade(c) ==
    [c EXCEPT !.subsection_counter = 1]

start_new_section(c) ==
    start_new_subsection([c EXCEPT !.subsection_counter = 1])

\* The handlers' starred branch: lines 247-250, 264-267, 281-284.
StarredNumbering(c) ==
    [reg |-> c, attr |-> <<>>, prefix |-> <<>>]

\* lines 240-246
section_numbering(c) ==
    LET section_no == c.section_counter
        section_id == <<"section-", ToString(section_no)>>
    IN  [reg    |-> start_new_section([c EXCEPT !.last_generated_label = PyStr(section_id),
                                                !.section_counter = @ + 1]),
         attr   |-> IdAttribute(section_id),
         prefix |-> <<ToString(section_no), " ">>]

\* An id that leaves out the section ordinal.
subsection_id_flat(c) ==
    <<"subsection-", ToString(c.subsection_counter)>>

\* line 258
subsection_id(c) ==
    <<"subsection-", ToString(c.section_counter - 1), ".", ToString(c.subsection_counter)>>

\* lines 257-263
subsection_numbering(c) ==
    LET subsection_no == c.subsection_counter
        id == subsection_id(c)
    IN  [reg    |-> start_new_subsection([c EXCEPT !.last_generated_label = PyStr(id),
                                                   !.subsection_counter = @ + 1]),
         attr   |-> IdAttribute(id),
         prefix |-> <<ToString(c.section_counter - 1), ".", ToString(subsection_no), " ">>]

\* lines 274-280
subsubsection_numbering(c) ==
    LET subsubsection_no == c.subsubsection_counter
        id == <<"subsubsection-", ToString(c.section_counter - 1), ".",
                ToString(c.subsection_counter - 1), ".", ToString(subsubsection_no)>>
    IN  [reg    |-> start_new_subsubsection([c EXCEPT !.last_generated_label = PyInt(subsubsection_no),
                                                      !.subsubsection_counter = @ + 1]),
         attr   |-> IdAttribute(id),
         prefix |-> <<ToString(c.section_counter - 1), ".", ToString(c.subsection_counter - 1),
                      ".", ToString(subsubsection_no), " ">>]

\* A dispatch that never passes starred=True.
StarredNever(name) == FALSE

\* lines 219-230: the starred flag the walker passes to a handler.
Starred(name) == name \in {"section*", "subsection*", "subsubsection*"}

(***************************************************************************)
(* The input.  tex_string is a sequence of items: a chunk of source text   *)
(* (its text, and the contents TexSoup gives for it after preprocess), or  *)
(* a blank run, a maximal run of two or more line breaks.                  *)
(***************************************************************************)
MaxNodes == 3

BlankRun == [raw |-> <<"\n", "\n">>, contents |-> <<>>]

IsBlankRun(item) ==
    Len(item.raw) >= 2 /\ \A k \in 1..Len(item.raw) : item.raw[k] \in {"\n", "\r"}

TexChunk(forest) == [raw |-> <<"tex">>, contents |-> forest]

ExChunk == [raw |-> <<"\\ex", ".", " ", "a", "~", "b">>, contents |-> <<>>]

TocChunk == [raw |-> <<"\\tableofcontents">>, contents |-> <<>>]

\* The forests of exactly n nodes: leaves from atoms, TexNodes named from elems.
RECURSIVE ForestsN(_, _, _)
ForestsN(atoms, elems, n) ==
    IF n = 0 THEN {<<>>}
    ELSE UNION { { <<first>> \o rest :
                     first \in (IF k = 1 THEN atoms ELSE {}) \cup
                               { TexNode(e, c) : e \in elems, c \in ForestsN(atoms, elems, k - 1) },
                     rest \in ForestsN(atoms, elems, n - k) } : k \in 1..n }

ChunksN(fam, w) ==
    (IF w = 1 THEN fam.special ELSE {})
        \cup { TexChunk(f) : f \in ForestsN(fam.atoms, fam.elems, w) }

RECURSIVE ChunkSeqsN(_, _)
ChunkSeqsN(fam, w) ==
    IF w = 0 THEN {<<>>}
    ELSE UNION { { <<c>> \o rest : c \in ChunksN(fam, k), rest \in ChunkSeqsN(fam, w - k) }
                 : k \in 1..w }

\* Chunks with a blank run between each two.
RECURSIVE Separated(_)
Separated(cs) ==
    IF Len(cs) <= 1 THEN cs
    ELSE <<cs[1], BlankRun>> \o Separated(Tail(cs))

\* A family that does not split keeps its nodes in one chunk.
ChunkSeqs(fam, w) ==
    IF fam.split THEN ChunkSeqsN(fam, w)
    ELSE IF w = 0 THEN {<<>>}
    ELSE { <<c>> : c \in ChunksN(fam, w) }

\* A family's inputs: at most MaxNodes nodes, special chunks and leading or
\* trailing blank runs in all.
Sources(fam) ==
    UNION { { (IF t[1] = 1 THEN <<BlankRun>> ELSE <<>>) \o Separated(cs)
                  \o (IF t[2] = 1 THEN <<BlankRun>> ELSE <<>>) :
              cs \in ChunkSeqs(fam, t[3]) }
            : t \in { u \in (fam.blank \X fam.blank \X (0..MaxNodes)) :
                        u[1] + u[2] + u[3] <= MaxNodes } }

Label(k) == TexNode("label", <<TextLeaf(k)>>)

\* \begin{enumerate} \def\labelenumi{...} \setcounter{enumi}{1} \item w \item w \end{enumerate}
ExampleListChunk ==
    TexChunk(<<TexNode("enumerate",
                 <<TexNode("def", <<>>),
                   TexNode("labelenumi", <<>>),
                   TexNode("setcounter", <<TextLeaf(<<"enumi">>), TextLeaf(<<"1">>)>>),
                   TexNode("item", <<TextLeaf(<<"w">>)>>),
                   TexNode("item", <<TextLeaf(<<"w">>)>>)>>)>>)

Numbered ==
    [atoms |-> {}, special |-> {}, blank |-> {0}, split |-> FALSE,
     elems |-> {"section", "subsection", "subsubsection"}]

Starring ==
    [atoms |-> {}, special |-> {}, blank |-> {0}, split |-> FALSE,
     elems |-> {"section*", "subsection*", "subsubsection*", "subsection"}]

Footnoted ==
    [atoms |-> {TextLeaf(<<"w">>)}, special |-> {}, blank |-> {0}, split |-> FALSE,
     elems |-> {"footnote", "textit", "section"}]

Labelled ==
    [atoms |-> {Label(<<"k">>)}, special |-> {}, blank |-> {0}, split |-> FALSE,
     elems |-> {"section", "subsection", "subsubsection"}]

Listed ==
    [atoms |-> {TextLeaf(<<"w">>)}, special |-> {ExampleListChunk}, blank |-> {0},
     split |-> FALSE, elems |-> {"itemize", "enumerate", "item"}]

Blocked ==
    [atoms |-> {TextLeaf(<<" ", "w", ".">>)}, special |-> {ExChunk, TocChunk},
     blank |-> {0, 1}, split |-> TRUE, elems |-> {"section", "footnote"}]

Inputs ==
    Sources(Numbered) \cup Sources(Starring) \cup Sources(Footnoted)
        \cup Sources(Labelled) \cup Sources(Listed) \cup Sources(Blocked)

(***************************************************************************)
(* Block Segmenter, line 109: re.split(r'[\n\r]{2,}', preprocess(s)).      *)
(***************************************************************************)
EmptyBlock == [raw |-> <<>>, contents |-> <<>>]

preprocess_items(items) ==
    [i \in DOMAIN items |-> [items[i] EXCEPT !.raw = preprocess(@)]]

RECURSIVE SplitFrom(_, _, _)
SplitFrom(items, i, cur) ==
    IF i > Len(items) THEN <<cur>>
    ELSE IF IsBlankRun(items[i]) THEN <<cur>> \o SplitFrom(items, i + 1, EmptyBlock)
         ELSE SplitFrom(items, i + 1, [raw      |-> cur.raw \o items[i].raw,
                                       contents |-> cur.contents \o items[i].contents])

re_split(items) == SplitFrom(items, 1, EmptyBlock)

(***************************************************************************)
(* State.                                                                  *)
(***************************************************************************)
VARIABLES
    tex_string,             \* the constructor's argument
    blocks,                 \* self.blocks
    bi,                     \* __convert: index of the block of the for loop
    result,                 \* __convert: the local list result
    HTML_arr,               \* self.HTML_arr; <<>> stands for None until pc = "done"
    pc,                     \* "convert": in __convert; "done": returned; "raised": an exception left the constructor
    exc,                    \* the exception raised, "" for none
    section_counter, subsection_counter, subsubsection_counter, paragraph_counter,
    example_counter,
    footnotes,              \* self.footnotes
    label_replacement_dict, \* self.label_replacement_dict
    last_generated_label,   \* self.last_generated_label
    stack,                  \* the call stack below __convert, innermost call last
    txt,                    \* postprocess applied repeatedly: the current string
    applied                 \* the strings so far: the input and each result

vars == <<tex_string, blocks, bi, result, HTML_arr, pc, exc, section_counter,
          subsection_counter, subsubsection_counter, paragraph_counter, example_counter,
          footnotes, label_replacement_dict, last_generated_label, stack, txt, applied>>

registry == <<section_counter, subsection_counter, subsubsection_counter,
              paragraph_counter, last_generated_label>>

Registry ==
    [section_counter |-> section_counter, subsection_counter |-> subsection_counter,
     subsubsection_counter |-> subsubsection_counter, paragraph_counter |-> paragraph_counter,
     last_generated_label |-> last_generated_label]

SetRegistry(r) ==
    /\ section_counter' = r.section_counter
    /\ subsection_counter' = r.subsection_counter
    /\ subsubsection_counter' = r.subsubsection_counter
    /\ paragraph_counter' = r.paragraph_counter
    /\ last_generated_label' = r.last_generated_label

\* A call frame: the function, the contents it iterates, its loop indices and
\* locals, and the place it is at.
Frame(fn, tree, at) ==
    [fn |-> fn, tree |-> tree, at |-> at, i |-> 1, j |-> 1, result |-> <<>>, tmp |-> <<>>,
     attr |-> <<>>, prefix |-> <<>>, already_parsed |-> FALSE, first_example_no |-> 0]

Top == stack[Len(stack)]

Caller == stack[Len(stack) - 1]

Pop(n) == SubSeq(stack, 1, Len(stack) - n)

SetTop(s, f) == [s EXCEPT ![Len(s)] = f]

Handlers == {"section", "subsection", "subsubsection"}

\* Lines 92-113 up to the call of __convert.
InitConverter(s) ==
    /\ tex_string = s
    /\ blocks = re_split(preprocess_items(s))
    /\ bi = 1
    /\ result = <<>>
    /\ HTML_arr = <<>>
    /\ pc = "convert"
    /\ exc = ""
    /\ section_counter = 1
    /\ subsection_counter = 1
    /\ subsubsection_counter = 1
    /\ paragraph_counter = 1
    /\ example_counter = 1
    /\ footnotes = <<>>
    /\ label_replacement_dict = <<>>
    /\ last_generated_label = None
    /\ stack = <<>>

Init ==
    /\ \E s \in Inputs : InitConverter(s)
    /\ txt = <<>>
    /\ applied = <<>>

(***************************************************************************)
(* postprocess as a function of its own: an input string, and postprocess  *)
(* applied to it again and again.  The converter stands still.             *)
(***************************************************************************)
MaxLen == 4

MaxApplications == 2

PostAlphabet == {" ", "&lt;", "&gt;", "_", ">", "<", "(", ")", "[", "."}

RECURSIVE StringsUpTo(_, _)
StringsUpTo(alphabet, n) ==
    IF n = 0 THEN {<<>>}
    ELSE {<<>>} \cup { <<u>> \o s : u \in alphabet, s \in StringsUpTo(alphabet, n - 1) }

InitPost ==
    /\ txt \in StringsUpTo(PostAlphabet, MaxLen)
    /\ applied = <<txt>>
    /\ tex_string = <<>>
    /\ blocks = <<>>
    /\ bi = 1
    /\ result = <<>>
    /\ HTML_arr = <<>>
    /\ pc = "idle"
    /\ exc = ""
    /\ section_counter = 1
    /\ subsection_counter = 1
    /\ subsubsection_counter = 1
    /\ paragraph_counter = 1
    /\ example_counter = 1
    /\ footnotes = <<>>
    /\ label_replacement_dict = <<>>
    /\ last_generated_label = None
    /\ stack = <<>>

\* txt = postprocess(txt)
apply_postprocess ==
    /\ pc = "idle"
    /\ Len(applied) <= MaxApplications
    /\ txt' = postprocess(txt)
    /\ applied' = Append(applied, txt')
    /\ UNCHANGED <<tex_string, blocks, bi, result, HTML_arr, pc, exc, registry,
                   example_counter, footnotes, label_replacement_dict, stack>>

NextPost == apply_postprocess

SpecPost == InitPost /\ [][NextPost]_vars

(***************************************************************************)
(* __convert_block, lines 152-183.  Entering it either raises, returns at  *)
(* once, or calls the walker or a list handler; its value goes to the      *)
(* caller: __convert (line 146) or a list handler (lines 302, 339).        *)
(***************************************************************************)
Raises(e) == [kind |-> "raise", exc |-> e, frames |-> <<>>, value |-> <<>>]

Calls(frames) == [kind |-> "call", exc |-> "", frames |-> frames, value |-> <<>>]

Returns(v) == [kind |-> "return", exc |-> "", frames |-> <<>>, value |-> v]

\* int(s) of a string of one digit; -1 stands for ValueError.
ParseInt(s) ==
    IF Len(s) = 1 /\ \E n \in 0..9 : ToString(n) = s[1]
    THEN CHOOSE n \in 0..9 : ToString(n) = s[1]
    ELSE -1

\* enumerate, lines 323-329; first_example_no = -1 stands for None.
EnumerateEnter(node, B) ==
    LET children == Children(node.contents)
        isdef == children[1].name = "def"
        counted == Len(children) >= 3 /\ children[3].name = "setcounter"
        arg == children[3].contents
        frame == [Frame("enumerate", children, "for") EXCEPT
                    !.attr = IF isdef THEN <<" class=\"example\"">> ELSE <<>>,
                    !.first_example_no = IF counted THEN ParseInt(arg[2].text) + 1
                                         ELSE IF isdef THEN 1 ELSE -1]
    IN  IF children = <<>> THEN Raises("IndexError")
        ELSE IF counted /\ (Len(arg) < 2 \/ ~IsText(arg[2])) THEN Raises("IndexError")
        ELSE IF counted /\ ParseInt(arg[2].text) = -1 THEN Raises("ValueError")
        ELSE Calls(<<B, frame>>)

ConvertBlockEnter(tree, already_parsed) ==
    IF tree = <<>> THEN Raises("IndexError")                         \* tree.contents[0]
    ELSE
    LET first_node == tree[1]
        B(at) == [Frame("__convert_block", tree, at) EXCEPT !.already_parsed = already_parsed]
    IN  IF IsText(first_node) \/ first_node.name \in TEXT_NODES
        THEN Calls(<<[B("call166") EXCEPT
                         !.result = IF already_parsed THEN <<>> ELSE << <<"<", "p", ">">> >>],
                     Frame("__process_text_tree", tree, "for")>>)
        ELSE IF first_node.name = "BraceGroup"
        THEN IF first_node.contents = <<>> THEN Raises("IndexError")
             ELSE IF IsText(first_node.contents[1]) THEN Returns(first_node.contents[1].text)
             ELSE Raises("TypeError")                                \* join of a TexNode
        ELSE IF first_node.name \in SECTION_NODES
        THEN Calls(<<B("call175"), Frame("__process_text_tree", tree, "for")>>)
        ELSE IF first_node.name = "itemize"
        THEN Calls(<<B("call178"), Frame("itemize", Children(first_node.contents), "for")>>)
        ELSE IF first_node.name = "enumerate"
        THEN EnumerateEnter(first_node, B("call180"))
        ELSE Returns(<<first_node.name>>)

\* The value of a __convert_block call reaches its caller, whose frame is the
\* last of base: __convert appends its postprocess (line 146), a list handler
\* appends it to tmp (lines 302, 339).
Deliver(base, fragment) ==
    IF base = <<>>
    THEN /\ stack' = <<>>
         /\ result' = Append(result, postprocess(fragment))
         /\ bi' = bi + 1
    ELSE /\ stack' = SetTop(base, [base[Len(base)] EXCEPT !.tmp = Append(@, fragment),
                                                           !.j = @ + 1])
         /\ UNCHANGED <<result, bi>>

Complete(base, outcome) ==
    IF outcome.kind = "raise"
    THEN /\ pc' = "raised"
         /\ exc' = outcome.exc
         /\ UNCHANGED <<stack, result, bi>>
    ELSE IF outcome.kind = "call"
    THEN /\ stack' = base \o outcome.frames
         /\ UNCHANGED <<pc, exc, result, bi>>
    ELSE /\ Deliver(base, outcome.value)
         /\ UNCHANGED <<pc, exc>>

(***************************************************************************)
(* __convert, lines 131-150.                                               *)
(***************************************************************************)
InLoop == pc = "convert" /\ stack = <<>> /\ bi <= Len(blocks)

\* lines 136-139
example_block ==
    /\ InLoop
    /\ StartsWith(blocks[bi].raw, <<"\\ex">>)
    /\ result' = Append(result, convert_example(blocks[bi].raw, example_counter))
    /\ example_counter' = example_counter + 1
    /\ bi' = bi + 1
    /\ UNCHANGED <<tex_string, blocks, HTML_arr, pc, exc, registry, footnotes,
                   label_replacement_dict, stack, txt, applied>>

\* lines 140-143
toc_block ==
    /\ InLoop
    /\ ~StartsWith(blocks[bi].raw, <<"\\ex">>)
    /\ StartsWith(blocks[bi].raw, <<"\\tableofcontents">>)
    /\ result' = Append(result, TocPlaceholder)
    /\ bi' = bi + 1
    /\ UNCHANGED <<tex_string, blocks, HTML_arr, pc, exc, registry, example_counter,
                   footnotes, label_replacement_dict, stack, txt, applied>>

\* lines 145-146: TexSoup.TexSoup(block) is blocks[bi].contents
convert_block ==
    /\ InLoop
    /\ ~StartsWith(blocks[bi].raw, <<"\\ex">>)
    /\ ~StartsWith(blocks[bi].raw, <<"\\tableofcontents">>)
    /\ Complete(<<>>, ConvertBlockEnter(blocks[bi].contents, FALSE))
    /\ UNCHANGED <<tex_string, blocks, HTML_arr, registry, example_counter, footnotes,
                   label_replacement_dict, txt, applied>>

\* lines 147-150
flush_footnotes ==
    /\ pc = "convert" /\ stack = <<>> /\ bi > Len(blocks)
    /\ HTML_arr' = result \o [k \in 1..Len(footnotes) |-> postprocess(footnotes[k])]
    /\ pc' = "done"
    /\ UNCHANGED <<tex_string, blocks, bi, result, exc, registry, example_counter,
                   footnotes, label_replacement_dict, stack, txt, applied>>

(***************************************************************************)
(* __process_text_tree, lines 185-234, on the innermost frame.             *)
(***************************************************************************)
Walking == pc = "convert" /\ stack # <<>> /\ Top.fn = "__process_text_tree"

AtNode == Walking /\ Top.at = "for" /\ Top.i <= Len(Top.tree)

Finished == Walking /\ Top.at = "for" /\ Top.i > Len(Top.tree)

Dispatching == Walking /\ Top.at = "dispatch"

Node == Top.tree[Top.i]

\* The next iteration of the for loop of line 193.
NextNode(f) == [f EXCEPT !.i = @ + 1, !.at = "for", !.tmp = <<>>]

onlyStack == <<tex_string, blocks, bi, result, HTML_arr, pc, exc, registry, example_counter,
               footnotes, label_replacement_dict, txt, applied>>

\* lines 194-198
text_leaf ==
    /\ AtNode /\ IsText(Node)
    /\ stack' = SetTop(stack, NextNode([Top EXCEPT !.result = Append(@, Strip(Node.text))]))
    /\ UNCHANGED onlyStack

\* lines 200-201: the walk of the node's contents into tmp, before the dispatch
recurse ==
    /\ AtNode /\ ~IsText(Node)
    /\ stack' = Append(SetTop(stack, [Top EXCEPT !.at = "call201"]),
                       Frame("__process_text_tree", Node.contents, "for"))
    /\ UNCHANGED onlyStack

\* line 201 returns: tmp holds the walked contents
return_tmp ==
    /\ Finished /\ Len(stack) >= 2
    /\ Caller.fn = "__process_text_tree" /\ Caller.at = "call201"
    /\ stack' = SetTop(Pop(1), [Caller EXCEPT !.tmp = Top.result, !.at = "dispatch"])
    /\ UNCHANGED onlyStack

\* lines 202-204: node.text[0] raises IndexError for a label with no text
label ==
    /\ Dispatching /\ Node.name = "label"
    /\ IF TextOf(Node.contents) = <<>>
       THEN /\ pc' = "raised" /\ exc' = "IndexError"
            /\ UNCHANGED <<stack, label_replacement_dict>>
       ELSE LET key == TextOf(Node.contents)[1]
            IN  /\ label_replacement_dict' =
                       [k \in DOMAIN label_replacement_dict \cup {key} |->
                            IF k = key THEN last_generated_label ELSE label_replacement_dict[k]]
                /\ stack' = SetTop(stack, NextNode(Top))
                /\ UNCHANGED <<pc, exc>>
    /\ UNCHANGED <<tex_string, blocks, bi, result, HTML_arr, registry, example_counter,
                   footnotes, txt, applied>>

\* lines 205-210
footnote ==
    /\ Dispatching /\ Node.name = "footnote"
    /\ LET footnote_no == Len(footnotes) + 1
       IN  /\ stack' = SetTop(stack, NextNode([Top EXCEPT
                                  !.result = Append(@, FootnoteAnchor(footnote_no))]))
           /\ footnotes' = Append(footnotes, FootnoteBody(footnote_no, Top.tmp))
    /\ UNCHANGED <<tex_string, blocks, bi, result, HTML_arr, pc, exc, registry,
                   example_counter, label_replacement_dict, txt, applied>>

\* lines 211-218 and 232-234
inline ==
    /\ Dispatching
    /\ Node.name \notin {"label", "footnote", "section", "section*", "subsection",
                         "subsection*", "subsubsection", "subsubsection*"}
    /\ stack' = SetTop(stack, NextNode([Top EXCEPT
                           !.result = Append(@, InlineMarkup(Node.name, Top.tmp))]))
    /\ UNCHANGED onlyStack

\* A handler is called (lines 220-230): its numbering, then its own walk of the
\* node's contents (lines 251-252, 268-269, 285-286).
CallHandler(fn, numbering) ==
    /\ SetRegistry(numbering.reg)
    /\ stack' = SetTop(stack, [Top EXCEPT !.at = "call220"])
                  \o <<[Frame(fn, Node.contents, "call252") EXCEPT
                           !.attr = numbering.attr, !.prefix = numbering.prefix],
                       Frame("__process_text_tree", Node.contents, "for")>>
    /\ UNCHANGED <<tex_string, blocks, bi, result, HTML_arr, pc, exc, example_counter,
                   footnotes, label_replacement_dict, txt, applied>>

\* lines 219-222 and 238-252
section ==
    /\ Dispatching /\ Node.name \in {"section", "section*"}
    /\ CallHandler("section", IF Starred(Node.name) THEN StarredNumbering(Registry)
                              ELSE section_numbering(Registry))

\* lines 223-226 and 255-269
subsection ==
    /\ Dispatching /\ Node.name \in {"subsection", "subsection*"}
    /\ CallHandler("subsection", IF Starred(Node.name) THEN StarredNumbering(Registry)
                                 ELSE subsection_numbering(Registry))

\* lines 227-230 and 272-286
subsubsection ==
    /\ Dispatching /\ Node.name \in {"subsubsection", "subsubsection*"}
    /\ CallHandler("subsubsection", IF Starred(Node.name) THEN StarredNumbering(Registry)
                                    ELSE subsubsection_numbering(Registry))

\* lines 253, 270, 287: the handler returns its container, which the walker appends
return_handler ==
    /\ Finished /\ Len(stack) >= 3
    /\ Caller.fn \in Handlers
    /\ LET walker == stack[Len(stack) - 2]
           div == Div(Caller.fn, Caller.attr, Caller.prefix, Top.result)
       IN  stack' = SetTop(Pop(2), NextNode([walker EXCEPT !.result = Append(@, div)]))
    /\ UNCHANGED onlyStack

\* lines 166-169 and 175-176, then line 183
return_block ==
    /\ Finished /\ Len(stack) >= 2
    /\ Caller.fn = "__convert_block"
    /\ LET closing == IF Caller.at = "call166" /\ ~Caller.already_parsed
                      THEN << <<"<", "/p", ">">> >> ELSE <<>>
       IN  Deliver(Pop(2), Join(Caller.result \o Top.result \o closing))
    /\ UNCHANGED <<tex_string, blocks, HTML_arr, pc, exc, registry, example_counter,
                   footnotes, label_replacement_dict, txt, applied>>

(***************************************************************************)
(* itemize and enumerate, lines 292-347.                                   *)
(***************************************************************************)
InList == pc = "convert" /\ stack # <<>> /\ Top.fn \in {"itemize", "enumerate"}

AtItem == InList /\ Top.i <= Len(Top.tree)
                 /\ (Top.fn = "enumerate" => Top.tree[Top.i].name = "item")

\* lines 297-302 and 334-339
item_element ==
    /\ AtItem /\ Top.j <= Len(Top.tree[Top.i].contents)
    /\ Complete(stack, ConvertBlockEnter(<<Top.tree[Top.i].contents[Top.j]>>, TRUE))
    /\ UNCHANGED <<tex_string, blocks, HTML_arr, registry, example_counter, footnotes,
                   label_replacement_dict, txt, applied>>

NextItem(f) == [f EXCEPT !.i = @ + 1, !.j = 1, !.tmp = <<>>]

\* lines 303 and 340-346
end_item ==
    /\ AtItem /\ Top.j > Len(Top.tree[Top.i].contents)
    /\ LET numbered == Top.fn = "enumerate" /\ Top.first_example_no # -1
           li == <<"<", "li", ">">>
                   \o (IF numbered THEN <<"(", ToString(Top.first_example_no), ")", " ">> ELSE <<>>)
                   \o Join(Top.tmp) \o <<"<", "/li", ">">>
       IN  stack' = SetTop(stack, NextItem([Top EXCEPT
                               !.result = Append(@, li),
                               !.first_example_no = IF numbered THEN @ + 1 ELSE @]))
    /\ UNCHANGED onlyStack

\* lines 331-332
skip_child ==
    /\ InList /\ Top.i <= Len(Top.tree)
    /\ Top.fn = "enumerate" /\ Top.tree[Top.i].name # "item"
    /\ stack' = SetTop(stack, NextItem(Top))
    /\ UNCHANGED onlyStack

\* lines 304 and 347, then lines 178, 180 and 183 of the calling __convert_block
return_list ==
    /\ InList /\ Top.i > Len(Top.tree)
    /\ LET tag == IF Top.fn = "itemize" THEN "ul" ELSE "ol"
           list == <<"<", tag>> \o Top.attr \o <<">">> \o Join(Top.result) \o <<"<", "/" \o tag, ">">>
       IN  Deliver(Pop(2), list)
    /\ UNCHANGED <<tex_string, blocks, HTML_arr, pc, exc, registry, example_counter,
                   footnotes, label_replacement_dict, txt, applied>>

Next ==
    \/ example_block
    \/ toc_block
    \/ convert_block
    \/ flush_footnotes
    \/ text_leaf
    \/ recurse
    \/ return_tmp
    \/ label
    \/ footnote
    \/ inline
    \/ section
    \/ subsection
    \/ subsubsection
    \/ return_handler
    \/ return_block
    \/ item_element
    \/ end_item
    \/ skip_child
    \/ return_list

Spec == Init /\ [][Next]_vars

(***************************************************************************)
(* Reading the document and the output.                                    *)
(***************************************************************************)
RECURSIVE Flat(_)
Flat(list) ==
    IF list = <<>> THEN <<>> ELSE list[1] \o Flat(Tail(list))

\* The units that follow each occurrence of marker, in order.
RECURSIVE UnitsAfter(_, _, _)
UnitsAfter(s, marker, i) ==
    IF i >= Len(s) THEN <<>>
    ELSE (IF s[i] = marker THEN <<s[i + 1]>> ELSE <<>>) \o UnitsAfter(s, marker, i + 1)

\* The index of the first unit u of s at or after i.
RECURSIVE IndexOf(_, _, _)
IndexOf(s, u, i) ==
    IF i > Len(s) \/ s[i] = u THEN i ELSE IndexOf(s, u, i + 1)

\* The id attributes of the containers of class cls, in output order.
RECURSIVE IdsOfClass(_, _, _)
IdsOfClass(s, cls, i) ==
    IF i + 3 > Len(s) THEN <<>>
    ELSE (IF s[i] = "div class=\"" /\ s[i + 1] = cls /\ s[i + 3] = " id=\""
          THEN <<SubSeq(s, i + 4, IndexOf(s, "\"", i + 4) - 1)>> ELSE <<>>)
         \o IdsOfClass(s, cls, i + 1)

EmittedIds(fragments) ==
    IdsOfClass(Flat(fragments), "section", 1) \o IdsOfClass(Flat(fragments), "subsection", 1)
        \o IdsOfClass(Flat(fragments), "subsubsection", 1)

\* The ordinals of the footnote anchors, and of the footnote bodies, of fragments.
AnchorOrdinals(fragments) == UnitsAfter(Flat(fragments), "noteanchor", 1)

BodyOrdinals(fragments) == UnitsAfter(Flat(fragments), "div id=\"footnote", 1)

\* The fragments of the blocks, and those appended at the flush.
BlockFragments == SubSeq(HTML_arr, 1, Len(result))

FlushedFragments == SubSeq(HTML_arr, Len(result) + 1, Len(HTML_arr))

\* The names of the nodes of a forest, and of the whole document.
RECURSIVE Names(_)
Names(c) ==
    IF c = <<>> THEN {}
    ELSE {c[1].name} \cup Names(c[1].contents) \cup Names(Tail(c))

DocNames == UNION { Names(blocks[b].contents) : b \in DOMAIN blocks }

Unstarred == {"section", "subsection", "subsubsection"}

StarredNames == {"section*", "subsection*", "subsubsection*"}

\* Every block goes to the walker: it starts with text, inline markup or a
\* sectioning command.
AllBlocksWalked ==
    \A b \in DOMAIN blocks :
        /\ blocks[b].contents # <<>>
        /\ \/ IsText(blocks[b].contents[1])
           \/ blocks[b].contents[1].name \in TEXT_NODES \cup SECTION_NODES

Count(s, u) == Cardinality({i \in DOMAIN s : s[i] = u})

(***************************************************************************)
(* C1.  After conversion the footnote anchors in the emitted fragments and *)
(* the footnote bodies appended at the flush are as many, and each anchor  *)
(* ordinal has exactly one body of that ordinal and each body ordinal      *)
(* exactly one anchor.                                                     *)
(***************************************************************************)
C1_AnchorsMatchBodies ==
    pc = "done" =>
        LET anchors == AnchorOrdinals(HTML_arr)
            bodies  == BodyOrdinals(FlushedFragments)
        IN  /\ Len(anchors) = Len(bodies)
            /\ \A i \in DOMAIN anchors : Count(bodies, anchors[i]) = 1
            /\ \A j \in DOMAIN bodies : Count(anchors, bodies[j]) = 1

\* The number of footnote nodes of a forest.
RECURSIVE CountFootnotes(_)
CountFootnotes(c) ==
    IF c = <<>> THEN 0
    ELSE (IF c[1].name = "footnote" THEN 1 ELSE 0)
         + CountFootnotes(c[1].contents) + CountFootnotes(Tail(c))

\* The document-order ordinals of the footnotes of a forest that are not
\* inside another footnote, seen footnotes having started before the forest.
RECURSIVE AnchorsInOrder(_, _)
AnchorsInOrder(c, seen) ==
    IF c = <<>> THEN <<>>
    ELSE (IF c[1].name = "footnote" THEN <<ToString(seen + 1)>>
          ELSE AnchorsInOrder(c[1].contents, seen))
         \o AnchorsInOrder(Tail(c), seen + CountFootnotes(<<c[1]>>))

DocForest == Flat([b \in DOMAIN blocks |-> blocks[b].contents])

(***************************************************************************)
(* C10.  In a document without sectioning commands whose blocks are all    *)
(* walked, after conversion: the anchors in the block fragments carry the  *)
(* ordinals of their footnotes in document order (one plus the number of   *)
(* footnotes beginning earlier, nested ones included), the output is the   *)
(* block fragments in block order followed by the footnote bodies, and the *)
(* bodies carry the ordinals 1, 2, ..., n in that order.                   *)
(***************************************************************************)
C10_FootnotesInDocumentOrder ==
    (pc = "done" /\ AllBlocksWalked /\ DocNames \cap SECTION_NODES = {}) =>
        /\ AnchorOrdinals(BlockFragments) = AnchorsInOrder(DocForest, 0)
        /\ BlockFragments = result
        /\ BodyOrdinals(FlushedFragments)
               = [k \in 1..CountFootnotes(DocForest) |-> ToString(k)]
        /\ BodyOrdinals(BlockFragments) = <<>>

\* The ids that hierarchical numbering gives the unstarred subsections of a
\* forest in document order: s unstarred sections and n unstarred
\* subsections since the last of them have begun before the forest.
RECURSIVE SectionsIn(_)
SectionsIn(c) ==
    IF c = <<>> THEN 0
    ELSE (IF c[1].name = "section" THEN 1 ELSE 0)
         + SectionsIn(c[1].contents) + SectionsIn(Tail(c))

RECURSIVE SubsectionsAtEnd(_, _)
SubsectionsAtEnd(c, n) ==
    IF c = <<>> THEN n
    ELSE SubsectionsAtEnd(Tail(c),
             SubsectionsAtEnd(c[1].contents,
                 IF c[1].name = "section" THEN 0
                 ELSE IF c[1].name = "subsection" THEN n + 1 ELSE n))

RECURSIVE SubsectionIdsInOrder(_, _, _)
SubsectionIdsInOrder(c, s, n) ==
    IF c = <<>> THEN <<>>
    ELSE LET s1 == IF c[1].name = "section" THEN s + 1 ELSE s
             n1 == IF c[1].name = "section" THEN 0
                   ELSE IF c[1].name = "subsection" THEN n + 1 ELSE n
         IN  (IF c[1].name = "subsection"
              THEN <<<<"subsection-", ToString(s), ".", ToString(n1)>>>> ELSE <<>>)
             \o SubsectionIdsInOrder(c[1].contents, s1, n1)
             \o SubsectionIdsInOrder(Tail(c), s + SectionsIn(<<c[1]>>),
                                     SubsectionsAtEnd(<<c[1]>>, n))

(***************************************************************************)
(* C5.  In a document made of sectioning commands only, whose blocks are   *)
(* all walked, the ids of the emitted unstarred subsections are, in output *)
(* order, subsection-s.n with s the number of unstarred sections begun     *)
(* before the subsection and n its 1-based position among the unstarred    *)
(* subsections since the last of them (since the start when s = 0).        *)
(***************************************************************************)
C5_HierarchicalNumbering ==
    (pc = "done" /\ AllBlocksWalked /\ DocNames \subseteq SECTION_NODES) =>
        IdsOfClass(Flat(HTML_arr), "subsection", 1) = SubsectionIdsInOrder(DocForest, 0, 0)

\* The nodes of a forest, in document order.
RECURSIVE Nodes(_)
Nodes(c) ==
    IF c = <<>> THEN <<>>
    ELSE <<c[1]>> \o Nodes(c[1].contents) \o Nodes(Tail(c))

IsLabel(node) == ~IsText(node) /\ node.name = "label"

\* The unstarred sectioning elements that have a label among their children.
LabelledParents ==
    { n \in 1..Len(Nodes(DocForest)) :
        /\ Nodes(DocForest)[n].name \in Unstarred
        /\ \E k \in DOMAIN Nodes(DocForest)[n].contents :
               IsLabel(Nodes(DocForest)[n].contents[k]) }

LabelCount == Cardinality({ n \in 1..Len(Nodes(DocForest)) : IsLabel(Nodes(DocForest)[n]) })

(***************************************************************************)
(* C9.  In a document with one label, whose blocks are all walked: if the  *)
(* label is a child of an unstarred section, subsection or subsubsection,  *)
(* then after conversion the label registry binds its key to the string    *)
(* that one emitted container of that kind carries as its id attribute.    *)
(***************************************************************************)
C9_LabelBoundToParentId ==
    (pc = "done" /\ AllBlocksWalked /\ LabelCount = 1) =>
        \A n \in LabelledParents :
            /\ <<"k">> \in DOMAIN label_replacement_dict
            /\ \E i \in DOMAIN IdsOfClass(Flat(HTML_arr), Nodes(DocForest)[n].name, 1) :
                   label_replacement_dict[<<"k">>]
                       = PyStr(IdsOfClass(Flat(HTML_arr), Nodes(DocForest)[n].name, 1)[i])

(***************************************************************************)
(* C6.  A conversion never raises at an empty block, and after conversion  *)
(* every empty block has an empty fragment at its position in the output.  *)
(***************************************************************************)
C6_EmptyBlockTolerated ==
    /\ (pc = "raised" /\ stack = <<>>) => blocks[bi] # EmptyBlock
    /\ pc = "done" =>
           \A b \in DOMAIN blocks : blocks[b] = EmptyBlock => HTML_arr[b] = <<>>

IsExample(block) == StartsWith(block.raw, <<"\\ex">>)

\* The number of \ex-prefixed blocks among the first n blocks.
ExamplesBefore(n) == Cardinality({ b \in 1..n : IsExample(blocks[b]) })

(***************************************************************************)
(* C7.  While blocks are converted and afterwards, the example counter is  *)
(* one plus the number of \ex-prefixed blocks already converted, whatever  *)
(* the other blocks are, and the fragment of the k-th \ex-prefixed block   *)
(* is '(k): ' followed by the text of the block.                           *)
(***************************************************************************)
C7_ExampleCounter ==
    pc \in {"convert", "done"} =>
        /\ example_counter = 1 + ExamplesBefore(bi - 1)
        /\ \A b \in DOMAIN result :
               IsExample(blocks[b]) =>
                   result[b] = <<"(", ToString(1 + ExamplesBefore(b - 1)), ")", ":", " ">>
                                   \o blocks[b].raw
        /\ pc = "done" =>
               /\ example_counter = 1 + ExamplesBefore(Len(blocks))
               /\ BlockFragments = result

\* Two examples with a block of another kind in the document, all converted.
C7_Witness ==
    /\ pc = "done"
    /\ example_counter = 3
    /\ \E b \in DOMAIN blocks : ~IsExample(blocks[b])
    /\ \E b \in DOMAIN blocks : IsExample(blocks[b]) /\ HTML_arr[b][2] = "2"

\* The walker is about to call the handler of an element named name.
Handling(name) == Dispatching /\ Node.name = name

(***************************************************************************)
(* C2.  The step that numbers an unstarred section leaves the subsection,  *)
(* subsubsection and paragraph counters at 1; the step that numbers an     *)
(* unstarred subsection leaves the subsubsection and paragraph counters at *)
(* 1 and the section counter unchanged; the step that numbers an unstarred *)
(* subsubsection leaves the paragraph counter at 1 and the section and     *)
(* subsection counters unchanged.                                          *)
(***************************************************************************)
C2_ResetDiscipline ==
    [][ /\ Handling("section") =>
               /\ subsection_counter' = 1
               /\ subsubsection_counter' = 1
               /\ paragraph_counter' = 1
        /\ Handling("subsection") =>
               /\ subsubsection_counter' = 1
               /\ paragraph_counter' = 1
               /\ section_counter' = section_counter
        /\ Handling("subsubsection") =>
               /\ paragraph_counter' = 1
               /\ section_counter' = section_counter
               /\ subsection_counter' = subsection_counter ]_vars

\* A section has just been numbered after a subsubsection was: the lower
\* counters are back at 1.
C2_Witness ==
    /\ Len(stack) >= 3
    /\ Caller.fn = "section" /\ Caller.attr # <<>>
    /\ Top.at = "for" /\ Top.i = 1
    /\ \E u \in DOMAIN Flat(stack[Len(stack) - 2].result) :
           Flat(stack[Len(stack) - 2].result)[u] = "subsubsection-"
    /\ subsection_counter = 1 /\ subsubsection_counter = 1 /\ paragraph_counter = 1

(***************************************************************************)
(* C3.  The step that handles a starred sectioning command leaves the four *)
(* sectioning counters and the last generated id unchanged; and after the  *)
(* conversion of a document with no unstarred sectioning command the four  *)
(* counters are 1, no id was generated and no output carries an id         *)
(* attribute.                                                              *)
(***************************************************************************)
C3_StarredFrame ==
    /\ [][ (Dispatching /\ Node.name \in StarredNames) => UNCHANGED registry ]_vars
    /\ [] ((pc = "done" /\ DocNames \cap Unstarred = {}) =>
               /\ section_counter = 1 /\ subsection_counter = 1
               /\ subsubsection_counter = 1 /\ paragraph_counter = 1
               /\ last_generated_label = None
               /\ Count(Flat(HTML_arr), " id=\"") = 0)

\* A converted document with two or more starred containers and no
\* unstarred sectioning command.
C3_Witness ==
    /\ pc = "done"
    /\ DocNames \cap Unstarred = {}
    /\ DocNames \cap StarredNames # {}
    /\ Count(Flat(HTML_arr), "div class=\"") >= 2

(***************************************************************************)
(* C4.  After conversion no two sectioning containers of the output carry  *)
(* the same id attribute.                                                  *)
(***************************************************************************)
C4_IdsUnique ==
    pc = "done" =>
        \A i, j \in DOMAIN EmittedIds(HTML_arr) :
            i # j => EmittedIds(HTML_arr)[i] # EmittedIds(HTML_arr)[j]

\* A converted document whose output has a subsection id on each side of a
\* section id.
C4_Witness ==
    /\ pc = "done"
    /\ Len(IdsOfClass(Flat(HTML_arr), "subsection", 1)) = 2
    /\ Len(IdsOfClass(Flat(HTML_arr), "section", 1)) = 1
    /\ \E u \in DOMAIN Flat(HTML_arr) :
           /\ Flat(HTML_arr)[u] = "section-"
           /\ \E v \in 1..(u - 1) : Flat(HTML_arr)[v] = "subsection-"
           /\ \E v \in (u + 1)..Len(Flat(HTML_arr)) : Flat(HTML_arr)[v] = "subsection-"

\* s has a '_', the character of the '&lt;_' and '_&gt;' markers, or two
\* spaces in a row.
HasMarker(s) ==
    \/ \E i \in 1..Len(s) : s[i] = "_"
    \/ \E i \in 1..(Len(s) - 1) : s[i] = " " /\ s[i + 1] = " "

====
